---------------------------- MODULE Spec2Model ----------------------------
(***************************************************************************)
(* Model of the file route handler of the file server                      *)
(* (file_server/src/routes/file.rs): the GET handler that percent-decodes  *)
(* the request path, re-encodes it with one fixed rule, redirects when the *)
(* request path is not the re-encoded path, and otherwise splits the path  *)
(* into a user identifier and a file path and reads the `_id` query        *)
(* parameter.                                                              *)
(*                                                                         *)
(* Strings are sequences of bytes (0..255).  An Option<T> is a sequence of *)
(* length 0 (None) or 1 (Some(x)).                                         *)
(***************************************************************************)
EXTENDS Integers, Sequences, FiniteSets, TLC

VARIABLES
    initial_path,             \* req.uri().path(): the raw request path
    query,                    \* req.uri().query(): Option of the raw query
    status,                   \* "pending" until the handler has run, then its outcome
    path,                     \* Option: the percent-decoded path (local of get)
    normalized_encoded_path,  \* Option: the re-encoded path (local of get)
    location,                 \* Option: the target of the permanent redirect
    user_identifier,          \* Option: first component of the response body
    file_path,                \* Option: second component of the response body
    file_id,                  \* Option: third component (None prints as "None")
    hops                      \* redirects the client has followed so far

vars == <<initial_path, query, status, path, normalized_encoded_path,
          location, user_identifier, file_path, file_id, hops>>

None == <<>>
Some(x) == <<x>>

-----------------------------------------------------------------------------
(* Bounds of the model.                                                    *)

\* Fragments appended after the leading `/` of a request path.
MaxPathFrags == 3
\* Fragments a query string is built from.
MaxQueryFrags == 4
\* Redirects a client follows before it gives up.
MaxHops == 2
\* Fragments of the paths compared pairwise.
MaxPairFrags == 2

-----------------------------------------------------------------------------
(* Byte strings used by the handler.                                       *)

\* "_id="
FILE_ID_QUERY_PREFIX == <<95, 105, 100, 61>>

\* Every ASCII byte that is not a letter or a digit.
NON_ALPHANUMERIC == (0..127) \ ((48..57) \cup (65..90) \cup (97..122))

\* NON_ALPHANUMERIC without  - _ . ! ~ * ' ( )
COMPONENT == NON_ALPHANUMERIC \ {45, 95, 46, 33, 126, 42, 39, 40, 41}

\* Variant: `%` is taken out of the set together with `/`.
COMPONENT_IGNORING_SLASH_AND_PERCENT == COMPONENT \ {47, 37}

\* COMPONENT without `/`
COMPONENT_IGNORING_SLASH == COMPONENT \ {47}

-----------------------------------------------------------------------------
(* percent_decode_str(..).decode_utf8()                                     *)

\* char::to_digit(16): the value of a hexadecimal digit, -1 when it is none.
to_digit16(b) ==
    IF b \in 48..57 THEN b - 48
    ELSE IF b \in 65..70 THEN b - 55
    ELSE IF b \in 97..102 THEN b - 87
    ELSE -1

\* The decoder is lenient: a `%` that is not followed by two hexadecimal
\* digits is passed through as the byte `%`.
RECURSIVE percent_decode_from(_, _)
percent_decode_from(s, i) ==
    IF i > Len(s) THEN <<>>
    ELSE IF /\ s[i] = 37
            /\ i + 2 <= Len(s)
            /\ to_digit16(s[i + 1]) >= 0
            /\ to_digit16(s[i + 2]) >= 0
         THEN <<16 * to_digit16(s[i + 1]) + to_digit16(s[i + 2])>>
                  \o percent_decode_from(s, i + 3)
         ELSE <<s[i]>> \o percent_decode_from(s, i + 1)

\* Variant: the path is taken as it is, without decoding.
percent_decode_str_identity(s) == s

percent_decode_str(s) == percent_decode_from(s, 1)

IsCont(s, i) == i <= Len(s) /\ s[i] \in 128..191

\* std::str::from_utf8: well-formed UTF-8 only (no overlong forms, no
\* surrogates, nothing above U+10FFFF).
RECURSIVE utf8_valid_from(_, _)
utf8_valid_from(s, i) ==
    IF i > Len(s) THEN TRUE
    ELSE LET b == s[i] IN
         IF b < 128 THEN utf8_valid_from(s, i + 1)
         ELSE IF b \in 194..223
              THEN IsCont(s, i + 1) /\ utf8_valid_from(s, i + 2)
         ELSE IF b \in 224..239
              THEN /\ i + 1 <= Len(s)
                   /\ s[i + 1] \in (IF b = 224 THEN 160..191
                                    ELSE IF b = 237 THEN 128..159
                                    ELSE 128..191)
                   /\ IsCont(s, i + 2)
                   /\ utf8_valid_from(s, i + 3)
         ELSE IF b \in 240..244
              THEN /\ i + 1 <= Len(s)
                   /\ s[i + 1] \in (IF b = 240 THEN 144..191
                                    ELSE IF b = 244 THEN 128..143
                                    ELSE 128..191)
                   /\ IsCont(s, i + 2)
                   /\ IsCont(s, i + 3)
                   /\ utf8_valid_from(s, i + 4)
         ELSE FALSE

\* Variant: a lossy decoding, which never fails (each byte of an ill-formed
\* sequence is kept, where the real one would put U+FFFD).
decode_utf8_lossy(bytes) == Some(bytes)

\* Ok(decoded) as Some(decoded), Err(..) as None.
decode_utf8(bytes) == IF utf8_valid_from(bytes, 1) THEN Some(bytes) ELSE None

-----------------------------------------------------------------------------
(* utf8_percent_encode                                                      *)

\* Upper-case hexadecimal digit of a nibble.
HexDigit(n) == IF n < 10 THEN 48 + n ELSE 55 + n

percent_encode_byte(b) == <<37, HexDigit(b \div 16), HexDigit(b % 16)>>

RECURSIVE utf8_percent_encode_from(_, _, _)
utf8_percent_encode_from(s, i, ascii_set) ==
    IF i > Len(s) THEN <<>>
    ELSE (IF s[i] >= 128 \/ s[i] \in ascii_set
          THEN percent_encode_byte(s[i])
          ELSE <<s[i]>>)
         \o utf8_percent_encode_from(s, i + 1, ascii_set)

utf8_percent_encode(s, ascii_set) == utf8_percent_encode_from(s, 1, ascii_set)

-----------------------------------------------------------------------------
(* Helpers of the handler.                                                 *)

\* Variant: an empty query is treated like no query.
concat_path_and_nonempty_query(p, q) ==
    IF q = None \/ q[1] = <<>> THEN p ELSE p \o <<63>> \o q[1]

\* Joins a path and a query, separated by `?` when there is a query.
concat_path_and_query(p, q) ==
    IF q = None THEN p ELSE p \o <<63>> \o q[1]

\* str::find('/'): the first index of `/` in s, 0 when there is none.
find_slash(s) ==
    IF \E i \in 1..Len(s) : s[i] = 47
    THEN CHOOSE i \in 1..Len(s) : s[i] = 47 /\ \A j \in 1..(i - 1) : s[j] # 47
    ELSE 0

\* Variant: the split is one byte late, so the `/` goes to the user identifier.
parse_file_route_path_late_split(p) ==
    IF p = <<>> \/ p[1] # 47 THEN None
    ELSE LET rest == Tail(p)
             slash_index == find_slash(rest)
         IN  IF slash_index # 0
             THEN Some(<<SubSeq(rest, 1, slash_index),
                         SubSeq(rest, slash_index + 1, Len(rest))>>)
             ELSE Some(<<rest, <<47>>>>)

\* Variant: a path without a second `/` is refused like one without the first.
parse_file_route_path_needing_slash(p) ==
    IF p = <<>> \/ p[1] # 47 THEN None
    ELSE LET rest == Tail(p)
             slash_index == find_slash(rest)
         IN  IF slash_index # 0
             THEN Some(<<SubSeq(rest, 1, slash_index - 1),
                         SubSeq(rest, slash_index, Len(rest))>>)
             ELSE None

\* Some(<<user identifier, file path>>); None stands for the panic of
\* expect("path should start with `/`").
parse_file_route_path(p) ==
    IF p = <<>> \/ p[1] # 47 THEN None
    ELSE LET rest == Tail(p)
             slash_index == find_slash(rest)
         IN  IF slash_index # 0
             THEN Some(<<SubSeq(rest, 1, slash_index - 1),
                         SubSeq(rest, slash_index, Len(rest))>>)
             ELSE Some(<<rest, <<47>>>>)

\* str::split('&'): the segments between the `&` bytes, in order (the empty
\* string splits into one empty segment).
RECURSIVE split_amp(_)
split_amp(s) ==
    IF \E i \in 1..Len(s) : s[i] = 38
    THEN LET i == CHOOSE k \in 1..Len(s) :
                      s[k] = 38 /\ \A j \in 1..(k - 1) : s[j] # 38
         IN  <<SubSeq(s, 1, i - 1)>> \o split_amp(SubSeq(s, i + 1, Len(s)))
    ELSE <<s>>

\* str::strip_prefix: Some(rest) when s starts with prefix, else None.
strip_prefix(s, prefix) ==
    IF Len(s) >= Len(prefix) /\ SubSeq(s, 1, Len(prefix)) = prefix
    THEN Some(SubSeq(s, Len(prefix) + 1, Len(s)))
    ELSE None

\* Iterator::find_map over the segments: the first Some.
RECURSIVE find_map_strip(_, _)
find_map_strip(params, prefix) ==
    IF params = <<>> THEN None
    ELSE IF strip_prefix(Head(params), prefix) # None
         THEN strip_prefix(Head(params), prefix)
         ELSE find_map_strip(Tail(params), prefix)

\* Some(what follows the first occurrence of prefix in s), None without one.
after_first(s, prefix) ==
    IF \E i \in 0..(Len(s) - Len(prefix)) : SubSeq(s, i + 1, i + Len(prefix)) = prefix
    THEN LET i == CHOOSE k \in 0..(Len(s) - Len(prefix)) :
                      /\ SubSeq(s, k + 1, k + Len(prefix)) = prefix
                      /\ \A j \in 0..(k - 1) : SubSeq(s, j + 1, j + Len(prefix)) # prefix
         IN  Some(SubSeq(s, i + Len(prefix) + 1, Len(s)))
    ELSE None

\* Variant: `_id=` is looked for anywhere in the query, not at the start of a
\* parameter.
get_queried_file_id_anywhere(q) ==
    IF q = None THEN None
    ELSE IF after_first(q[1], FILE_ID_QUERY_PREFIX) = None THEN None
         ELSE Some(Head(split_amp(after_first(q[1], FILE_ID_QUERY_PREFIX)[1])))

\* The value of the file ID query parameter, if the query has one.
get_queried_file_id(q) ==
    IF q = None THEN None
    ELSE find_map_strip(split_amp(q[1]), FILE_ID_QUERY_PREFIX)

-----------------------------------------------------------------------------
(* The handler.                                                            *)

Outcome(st, p, n, loc, u, f, id) ==
    [status |-> st, path |-> p, normalized_encoded_path |-> n,
     location |-> loc, user_identifier |-> u, file_path |-> f, file_id |-> id]

\* percent_decode_str(initial_path).decode_utf8()
decode_path(ip) == decode_utf8(percent_decode_str(ip))

\* utf8_percent_encode(&path, COMPONENT_IGNORING_SLASH)
normalize(p) == utf8_percent_encode(p, COMPONENT_IGNORING_SLASH)

\* Variant: the decoded path is compared with the re-encoded path.
compared_path_decoded(ip, p) == p

\* The left-hand side of `initial_path != normalized_encoded_path`.
compared_path(ip, p) == ip

\* Variant: the re-encoded path is split.
split_input_encoded(p, n) == n

\* The argument of parse_file_route_path: the decoded path.
split_input(p, n) == p

\* The body of get for a request with this path and this query.
handle(ip, q) ==
    LET decoded == decode_path(ip) IN
    IF decoded = None
    THEN Outcome("BAD_REQUEST", None, None, None, None, None, None)
    ELSE LET p == decoded[1]
             n == normalize(p)
         IN  IF compared_path(ip, p) # n
             THEN Outcome("PERMANENT_REDIRECT", Some(p), Some(n),
                          Some(concat_path_and_query(n, q)), None, None, None)
             ELSE LET parsed == parse_file_route_path(split_input(p, n)) IN
                  IF parsed = None
                  THEN Outcome("panic", Some(p), Some(n), None, None, None, None)
                  ELSE Outcome("OK", Some(p), Some(n), None,
                               Some(parsed[1][1]), Some(parsed[1][2]),
                               get_queried_file_id(q))

\* Variant: the query is normalized like the path, and a request whose query
\* is not in that form is redirected too.
get_normalizing_query ==
    /\ status = "pending"
    /\ LET r == handle(initial_path, query)
           nq == IF query = None THEN None ELSE Some(normalize(query[1]))
       IN  IF r.status = "OK" /\ nq # query
           THEN /\ status' = "PERMANENT_REDIRECT"
                /\ location' = Some(concat_path_and_query(initial_path, nq))
                /\ user_identifier' = None
                /\ file_path' = None
                /\ file_id' = None
                /\ path' = r.path
                /\ normalized_encoded_path' = r.normalized_encoded_path
           ELSE /\ status' = r.status
                /\ path' = r.path
                /\ normalized_encoded_path' = r.normalized_encoded_path
                /\ location' = r.location
                /\ user_identifier' = r.user_identifier
                /\ file_path' = r.file_path
                /\ file_id' = r.file_id
    /\ UNCHANGED <<initial_path, query, hops>>

\* GET on a file route: the handler runs on the pending request.
get ==
    /\ status = "pending"
    /\ LET r == handle(initial_path, query) IN
       /\ status' = r.status
       /\ path' = r.path
       /\ normalized_encoded_path' = r.normalized_encoded_path
       /\ location' = r.location
       /\ user_identifier' = r.user_identifier
       /\ file_path' = r.file_path
       /\ file_id' = r.file_id
    /\ UNCHANGED <<initial_path, query, hops>>

\* The first index of `?` in uri, 0 when there is none.
find_question_mark(uri) ==
    IF \E i \in 1..Len(uri) : uri[i] = 63
    THEN CHOOSE i \in 1..Len(uri) : uri[i] = 63 /\ \A j \in 1..(i - 1) : uri[j] # 63
    ELSE 0

\* Uri::path of a redirect target: everything before the first `?`.
uri_path(uri) ==
    IF find_question_mark(uri) # 0
    THEN SubSeq(uri, 1, find_question_mark(uri) - 1)
    ELSE uri

\* Uri::query of a redirect target: everything after the first `?`, if any.
uri_query(uri) ==
    IF find_question_mark(uri) # 0
    THEN Some(SubSeq(uri, find_question_mark(uri) + 1, Len(uri)))
    ELSE None

\* The client follows the permanent redirect: it requests the target.
FollowRedirect ==
    /\ status = "PERMANENT_REDIRECT"
    /\ hops < MaxHops
    /\ initial_path' = uri_path(location[1])
    /\ query' = uri_query(location[1])
    /\ status' = "pending"
    /\ path' = None
    /\ normalized_encoded_path' = None
    /\ location' = None
    /\ user_identifier' = None
    /\ file_path' = None
    /\ file_id' = None
    /\ hops' = hops + 1

-----------------------------------------------------------------------------
(* Requests.                                                               *)

\* Every concatenation of at most n strings of F.
RECURSIVE Concats(_, _)
Concats(F, n) ==
    IF n = 0 THEN {<<>>}
    ELSE LET shorter == Concats(F, n - 1) IN
         shorter \cup {s \o f : s \in shorter, f \in F}

\* Pieces of a request path:  /  %  2  F  f  *  Z  %25  %2F  %C2  %A2
PathFragments ==
    {<<47>>, <<37>>, <<50>>, <<70>>, <<102>>, <<42>>, <<90>>,
     <<37, 50, 53>>, <<37, 50, 70>>, <<37, 67, 50>>, <<37, 65, 50>>}

\* Origin-form request paths: a leading `/`, then fragments.
OriginPaths(n) == {<<47>> \o s : s \in Concats(PathFragments, n)}

\* Request paths: origin-form, and the two paths a request target without a
\* leading `/` has: the empty path (authority-form) and `*` (asterisk-form).
RawPaths == {<<>>, <<42>>} \cup OriginPaths(MaxPathFrags)

\* Pieces of a query:  _id=  _id  =  &  x  %41
QueryFragments ==
    {<<95, 105, 100, 61>>, <<95, 105, 100>>, <<61>>, <<38>>, <<120>>,
     <<37, 52, 49>>}

RawQueries ==
    {None} \cup {Some(s) : s \in Concats(QueryFragments, MaxQueryFrags)}

\* A few queries tried with every path: none, the empty query, `_id=x`,
\* `x&_id=%41`.
ProbeQueries ==
    {None, Some(<<>>), Some(<<95, 105, 100, 61, 120>>),
     Some(<<120, 38, 95, 105, 100, 61, 37, 52, 49>>)}

\* A few paths tried with every query:  /F  /F/2  /%C2%A2/%25  /%2f  /%FF
\* and the empty path.
ProbePaths ==
    {<<47, 70>>, <<47, 70, 47, 50>>,
     <<47, 37, 67, 50, 37, 65, 50, 47, 37, 50, 53>>,
     <<47, 37, 50, 102>>, <<47, 37, 70, 70>>, <<>>}

Requests ==
    (RawPaths \X ProbeQueries) \cup (ProbePaths \X RawQueries)

Pending(ip, q) ==
    /\ initial_path = ip
    /\ query = q
    /\ status = "pending"
    /\ path = None
    /\ normalized_encoded_path = None
    /\ location = None
    /\ user_identifier = None
    /\ file_path = None
    /\ file_id = None
    /\ hops = 0

Init == \E r \in Requests : Pending(r[1], r[2])

Next == get \/ FollowRedirect

Spec == Init /\ [][Next]_vars

\* Pairs of encodings: every origin-form path of at most MaxPairFrags
\* fragments, with the probe queries.
PairPaths == OriginPaths(MaxPairFrags)

InitPairs == \E r \in PairPaths \X ProbeQueries : Pending(r[1], r[2])

SpecPairs == InitPairs /\ [][Next]_vars

-----------------------------------------------------------------------------
(* Vocabulary of the properties.                                           *)

Answered == status # "pending"

IsHexDigit(b) == b \in (48..57) \cup (65..70) \cup (97..102)

\* s has a `%` that is not followed by two hexadecimal digits.
HasInvalidEscape(s) ==
    \E i \in 1..Len(s) :
        /\ s[i] = 37
        /\ ~(i + 2 <= Len(s) /\ IsHexDigit(s[i + 1]) /\ IsHexDigit(s[i + 2]))

\* The percent-decoding of s is well-formed UTF-8.
DecodesToUtf8(s) == utf8_valid_from(percent_decode_str(s), 1)

\* The Canonical Encoded Path of a raw path that decodes to UTF-8.
Canonical(s) == normalize(percent_decode_str(s))

IsSubstring(a, b) ==
    \E i \in 0..(Len(b) - Len(a)) : SubSeq(b, i + 1, i + Len(a)) = a

IsPrefix(a, b) == Len(a) <= Len(b) /\ SubSeq(b, 1, Len(a)) = a

IsSuffix(a, b) ==
    Len(a) <= Len(b) /\ SubSeq(b, Len(b) - Len(a) + 1, Len(b)) = a

\* p has a `/` after its first byte.
HasFurtherSlash(p) == \E i \in 2..Len(p) : p[i] = 47

\* A query parameter starts at index a of q.
ParamStartsAt(q, a) == a = 1 \/ q[a - 1] = 38

\* The parameter that starts at index a of q has the key `_id`, followed by `=`.
IdParamAt(q, a) ==
    /\ ParamStartsAt(q, a)
    /\ a + 3 <= Len(q)
    /\ q[a] = 95 /\ q[a + 1] = 105 /\ q[a + 2] = 100 /\ q[a + 3] = 61

\* The value of the `_id` parameter that starts at index a of q: what follows
\* its `=`, up to the next `&` or the end of the query.
IdValueAt(q, a) ==
    LET e == CHOOSE k \in (a + 3)..Len(q) :
                 /\ \A j \in (a + 4)..k : q[j] # 38
                 /\ (k = Len(q) \/ q[k + 1] = 38)
    IN  SubSeq(q, a + 4, e)

\* The decoding of each path of PairPaths.
PairDecoded == [e \in PairPaths |-> decode_path(e)]

\* A request for e with response r ends at the canonical path c: e is c and
\* is resolved, or e is redirected to exactly c.
ConvergesTo(e, r, c) ==
    \/ e = c /\ r.status = "OK"
    \/ /\ e # c
       /\ r.status = "PERMANENT_REDIRECT"
       /\ uri_path(r.location[1]) = c

-----------------------------------------------------------------------------
(* Properties.                                                             *)

\* C1 (Idempotence): the canonical path c computed for a request is a fixed
\* point of decode-then-encode, a request for c is not redirected whatever
\* its query, and a client that followed a redirect is resolved by its
\* second request: it is redirected at most once.
C1_CanonicalIsFixedPoint ==
    /\ normalized_encoded_path # None =>
           LET c == normalized_encoded_path[1] IN
           /\ DecodesToUtf8(c)
           /\ Canonical(c) = c
           /\ \A q \in ProbeQueries \cup {query} :
                  handle(c, q).status # "PERMANENT_REDIRECT"
    /\ status = "PERMANENT_REDIRECT" => hops = 0
    /\ (Answered /\ hops > 0) => status = "OK" /\ hops = 1

\* A client followed a redirect and its second request was resolved.
C1_Witness == hops = 1 /\ status = "OK"

\* C2 (Equivalence convergence): every path e2 with the same decoding as the
\* request path has the same canonical path, and both requests end at it,
\* resolved when they are the canonical path and redirected to it otherwise.
C2_EquivalentEncodingsConverge ==
    (Answered /\ path # None) =>
        /\ ConvergesTo(initial_path,
                       [status |-> status, location |-> location],
                       normalized_encoded_path[1])
        /\ \A e2 \in PairPaths :
               PairDecoded[e2] = path =>
                   LET r2 == handle(e2, query) IN
                   /\ r2.normalized_encoded_path = normalized_encoded_path
                   /\ ConvergesTo(e2, r2, normalized_encoded_path[1])

\* A redirected request whose path has two more encodings of the same
\* decoded path, the canonical one and another one.
C2_Witness ==
    /\ status = "PERMANENT_REDIRECT"
    /\ \E e2 \in PairPaths :
           /\ e2 # initial_path
           /\ e2 # normalized_encoded_path[1]
           /\ PairDecoded[e2] = path

\* C3 as stated: a path with an invalid percent-escape is answered with the
\* client error.
C3_InvalidEscapeIsBadRequest ==
    (Answered /\ HasInvalidEscape(initial_path)) => status = "BAD_REQUEST"

\* C3 as amended: a path with an invalid percent-escape is not refused for
\* it.  The `%` is decoded as itself; when the decoded bytes are UTF-8 the
\* request is redirected to the path in which that `%` is written `%25`
\* (never resolved), and it is answered with the client error only when the
\* decoded bytes are not UTF-8.
C3_InvalidEscapeIsRedirected ==
    (Answered /\ HasInvalidEscape(initial_path)) =>
        IF DecodesToUtf8(initial_path)
        THEN /\ status = "PERMANENT_REDIRECT"
             /\ ~HasInvalidEscape(uri_path(location[1]))
             /\ percent_decode_str(uri_path(location[1]))
                    = percent_decode_str(initial_path)
        ELSE status = "BAD_REQUEST"

\* The request for `/%ZZ` was redirected.
C3_Witness ==
    status = "PERMANENT_REDIRECT" /\ initial_path = <<47, 37, 90, 90>>

\* C4 as stated: in a resolved result the user identifier and the file path
\* are substrings of the canonical (re-encoded) path.
C4_PartsOfCanonicalPath ==
    status = "OK" =>
        /\ IsSubstring(user_identifier[1], normalized_encoded_path[1])
        /\ IsSubstring(file_path[1], normalized_encoded_path[1])

\* C4 as amended: in a resolved result the user identifier and the file path
\* are substrings of the decoded path, with the escapes decoded; their
\* re-encodings are the corresponding parts of the canonical path.
C4_PartsOfDecodedPath ==
    status = "OK" =>
        /\ IsSubstring(user_identifier[1], path[1])
        /\ IsSubstring(file_path[1], path[1])
        /\ IsPrefix(<<47>> \o normalize(user_identifier[1]),
                    normalized_encoded_path[1])
        /\ \/ ~HasFurtherSlash(path[1])
           \/ IsSuffix(normalize(file_path[1]), normalized_encoded_path[1])

\* A resolved request whose file path has an escape in the canonical path.
C4_Witness ==
    /\ status = "OK"
    /\ HasFurtherSlash(path[1])
    /\ normalize(file_path[1]) # file_path[1]

\* C5 as stated: `/`, the user identifier and the file path, concatenated,
\* are the canonical path, byte for byte.
C5_JoinIsCanonicalPath ==
    status = "OK" =>
        <<47>> \o user_identifier[1] \o file_path[1] = normalized_encoded_path[1]

\* C5 as amended: the split yields one user identifier without `/` and one
\* file path that starts with `/`.  With a further `/`, joining them after
\* `/` gives the decoded path, whose re-encoding is the canonical path;
\* without one, `/` and the user identifier give the decoded path and the
\* file path is `/`, which is also what the same path followed by `/`
\* yields: the two are not told apart.
C5_JoinIsDecodedPath ==
    status = "OK" =>
        LET u == user_identifier[1]
            f == file_path[1]
            p == path[1]
        IN  /\ \A i \in 1..Len(u) : u[i] # 47
            /\ f # <<>> /\ f[1] = 47
            /\ normalize(p) = initial_path
            /\ IF HasFurtherSlash(p)
               THEN <<47>> \o u \o f = p
               ELSE /\ <<47>> \o u = p
                    /\ f = <<47>>
                    /\ LET r == handle(initial_path \o <<47>>, query) IN
                       /\ r.status = "OK"
                       /\ r.user_identifier = user_identifier
                       /\ r.file_path = file_path

\* A resolved request for a path without a further `/`, with a user.
C5_Witness ==
    /\ status = "OK"
    /\ ~HasFurtherSlash(path[1])
    /\ user_identifier # Some(<<>>)
    /\ file_path = Some(<<47>>)

\* C6 (Override independence): the query never decides between redirect and
\* resolution.  The same path with any of the probe queries gets the same
\* status, and a request whose path is canonical is not redirected (and is
\* resolved when the path starts with `/`).
C6_QueryNeverDecidesRedirect ==
    Answered =>
        /\ \A q \in ProbeQueries : handle(initial_path, q).status = status
        /\ (DecodesToUtf8(initial_path) /\ Canonical(initial_path) = initial_path) =>
               /\ status # "PERMANENT_REDIRECT"
               /\ (IsPrefix(<<47>>, initial_path) => status = "OK")

\* A resolved request with a query of several parameters, `_id` among them.
C6_Witness ==
    /\ status = "OK"
    /\ query \notin ProbeQueries
    /\ file_id # None
    /\ Len(split_amp(query[1])) > 1

\* C7: when the canonical path is not the request path, the answer is a
\* permanent redirect whose target is the canonical path, followed by `?`
\* and the unmodified query when there is a query (an empty one too), and by
\* nothing when there is none.
C7_RedirectTarget ==
    (Answered /\ DecodesToUtf8(initial_path)
              /\ Canonical(initial_path) # initial_path) =>
        /\ status = "PERMANENT_REDIRECT"
        /\ uri_path(location[1]) = Canonical(initial_path)
        /\ uri_query(location[1]) = query
        /\ Len(location[1]) = Len(Canonical(initial_path))
                                + (IF query = None THEN 0 ELSE 1 + Len(query[1]))

\* A redirected request with a query that is present and empty.
C7_Witness == status = "PERMANENT_REDIRECT" /\ query = Some(<<>>)

\* C8 (Override extraction): in a resolved result the override is the
\* undecoded value of the first parameter of the query whose key is exactly
\* `_id`; there is none without a query or without such a parameter.
C8_FirstIdParameter ==
    status = "OK" =>
        IF query = None \/ ~(\E a \in 1..Len(query[1]) : IdParamAt(query[1], a))
        THEN file_id = None
        ELSE LET q == query[1]
                 first == CHOOSE a \in 1..Len(q) :
                              /\ IdParamAt(q, a)
                              /\ \A b \in 1..(a - 1) : ~IdParamAt(q, b)
             IN  file_id = Some(IdValueAt(q, first))

\* A resolved request whose query has two `_id` parameters of different
\* values.
C8_Witness ==
    /\ status = "OK"
    /\ query # None
    /\ \E a, b \in 1..Len(query[1]) :
           /\ a < b
           /\ IdParamAt(query[1], a)
           /\ IdParamAt(query[1], b)
           /\ IdValueAt(query[1], a) # IdValueAt(query[1], b)

C10_InvalidUtf8IsBadRequest ==
    (Answered /\ ~DecodesToUtf8(initial_path)) =>
        /\ status = "BAD_REQUEST"
        /\ path = None
        /\ normalized_encoded_path = None
        /\ location = None
        /\ user_identifier = None
        /\ file_path = None
        /\ file_id = None

\* The client error for a request whose query has an `_id` parameter.
C10_Witness ==
    /\ status = "BAD_REQUEST"
    /\ get_queried_file_id(query) # None

=============================================================================
